---- MODULE Spec2Model ----
(***************************************************************************)
(* mini-grep (src/src/lib.rs): the two search strategies, default_strategy *)
(* and default_async_strategy, the line formatter format_line, and the two *)
(* orchestration modes GrepConfig::grep_with (rayon, parallel) and         *)
(* GrepConfig::async_grep_with (buffer_unordered(8), one cooperative task).*)
(*                                                                         *)
(* Text is modelled as sequences of tokens.  "w" is a one-byte character,  *)
(* "e" stands for a two-byte character (such as U+00E9), "n" is the        *)
(* newline byte and "b" is a byte that is not valid UTF-8: a line that     *)
(* holds it cannot be read as a String (io::ErrorKind::InvalidData).       *)
(* What a writer receives is a sequence of output tokens (records tagged   *)
(* by k): the coloured path, a newline, or one formatted line.             *)
(***************************************************************************)
EXTENDS Integers, Sequences, FiniteSets, TLC

VARIABLES call,      \* the state of one call of a strategy (Spec) or of format_line (SpecFormat)
          cands,     \* the candidates of a run: what the glob and the file system give
          task,      \* parallel mode: per candidate, the state of its rayon job
          lastWriter, \* the candidate whose block the latest write to the process output belongs to
          parRes,    \* parallel mode: "start", "running", "ok" (returned Ok(())), "err" (returned Err) or "panic"
          aNext,     \* async mode: how many candidates the stream has pulled so far
          aQueue,    \* async mode: the futures held by buffer_unordered
          aStarted,  \* async mode: candidates whose File::open has been started
          aCur,      \* async mode: the strategy calls in progress, by candidate
          aCalls,    \* async mode: per candidate, how often the strategy was invoked
          aRes,      \* async mode: "start", "running", "ok" (returned Ok(())), "err" (returned Err) or "panic"
          config     \* the GrepConfig of the run: is its pattern, is its glob, syntactically valid

vars == <<call, cands, task, lastWriter, parRes, aNext, aQueue, aStarted, aCur, aCalls, aRes, config>>

(***************************************************************************)
(* Bounds of the model.                                                    *)
(***************************************************************************)
MaxLen == 4      \* longest input stream, in tokens, of specification Spec
NumCands == 3    \* candidates of a parallel run
NumWorkers == 2  \* threads of the rayon pool
NumFiles == 9    \* candidates of an asynchronous run (more than the ceiling)
LinenoWindow == 2  \* the line count of an iteration that never ends is kept modulo this

(***************************************************************************)
(* Program constants.                                                      *)
(***************************************************************************)
Ceiling == 8     \* .buffer_unordered(8)

(***************************************************************************)
(* Text.                                                                   *)
(***************************************************************************)
NL == "n"
BAD == "b"
Chars == {"w", "e"}
Alphabet == Chars \cup {NL, BAD}
Streams == UNION {[1..n -> Alphabet] : n \in 0..MaxLen}
Patterns == {<<"w">>, <<"e", "w">>}

Width(c) == IF c = "e" THEN 2 ELSE 1

RECURSIVE ByteLen(_)
ByteLen(s) == IF s = <<>> THEN 0 ELSE Width(Head(s)) + ByteLen(Tail(s))

\* The number of characters of line that lie wholly before byte offset b.
CharsBefore(line, b) ==
    Cardinality({i \in 1..Len(line) : ByteLen(SubSeq(line, 1, i)) <= b})

\* &line[from..to]: the characters between two byte offsets.
ByteSlice(line, from, to) ==
    SubSeq(line, CharsBefore(line, from) + 1, CharsBefore(line, to))

None == [some |-> FALSE, start |-> 0, end |-> 0]

\* Character positions at which pat occurs in line.
Occurrences(pat, line) ==
    {i \in 1..(Len(line) - Len(pat) + 1) : SubSeq(line, i, i + Len(pat) - 1) = pat}

Min(S) == CHOOSE x \in S : \A y \in S : x <= y

FindLast(pat, line) ==
    LET occ == Occurrences(pat, line)
        i == CHOOSE x \in occ : \A y \in occ : y <= x
    IN  IF occ = {} THEN None
        ELSE [some |-> TRUE,
              start |-> ByteLen(SubSeq(line, 1, i - 1)),
              end |-> ByteLen(SubSeq(line, 1, i - 1)) + ByteLen(pat)]

\* Regex::find for a literal pattern: the byte range of the leftmost match.
Find(pat, line) ==
    LET occ == Occurrences(pat, line)
        i == Min(occ)
    IN  IF occ = {} THEN None
        ELSE [some |-> TRUE,
              start |-> ByteLen(SubSeq(line, 1, i - 1)),
              end |-> ByteLen(SubSeq(line, 1, i - 1)) + ByteLen(pat)]

(***************************************************************************)
(* Output tokens.                                                          *)
(***************************************************************************)
PathTok(path) == [k |-> "path", p |-> path]
NLTok == [k |-> "nl"]

format_line_bytecol(line, lineno, start, end) ==
    [k |-> "line", lineno |-> lineno, col |-> start + 1,
     prefix |-> ByteSlice(line, 0, start),
     matched |-> ByteSlice(line, start, end),
     suffix |-> ByteSlice(line, end, ByteLen(line))]

\* format_line: line number, 1-based column in characters, prefix, the
\* match (in red) and the suffix.
format_line(line, lineno, start, end) ==
    LET prefix == ByteSlice(line, 0, start)
    IN  [k |-> "line", lineno |-> lineno, col |-> Len(prefix) + 1,
         prefix |-> prefix,
         matched |-> ByteSlice(line, start, end),
         suffix |-> ByteSlice(line, end, ByteLen(line))]

(***************************************************************************)
(* Reading lines: BufRead::lines / AsyncBufReadExt::lines.  One read takes *)
(* the bytes up to and including the next newline (or up to the end of the *)
(* stream), and gives the line without its newline; at the end of the      *)
(* stream it gives none.  The bytes of a line that is not valid UTF-8 are  *)
(* consumed and the read gives an error.                                   *)
(***************************************************************************)
LineEnd(stream, pos) ==
    LET nls == {i \in pos..Len(stream) : stream[i] = NL}
    IN  IF nls = {} THEN Len(stream) + 1 ELSE Min(nls)

ReadLine(stream, pos) ==
    LET e == LineEnd(stream, pos)
        line == SubSeq(stream, pos, e - 1)
    IN  [eof |-> pos > Len(stream),
         ok |-> \A i \in 1..Len(line) : line[i] # BAD,
         line |-> line,
         newpos |-> IF e > Len(stream) THEN Len(stream) + 1 ELSE e + 1]

(***************************************************************************)
(* One strategy call.  pc: "read" (the loop over the lines), "emit" (the   *)
(* test of matches.is_empty() and the first write_all), "w2", "w3", "w4"   *)
(* (the other three write_all calls), "done".  res: "none" while running,  *)
(* then "ok" or "err".  out: what the writer of this call has received.    *)
(***************************************************************************)
Variants == {"sync", "async"}

StratInit(variant, path, stream, pat) ==
    [variant |-> variant, path |-> path, stream |-> stream, pat |-> pat,
     pos |-> 1, lineno |-> 0, finds |-> <<>>, matches |-> <<>>,
     pc |-> "read", res |-> "none", out |-> <<>>,
     rdErr |-> FALSE, wrErr |-> FALSE]

\* finds.join("\n")
RECURSIVE Join(_)
Join(fs) ==
    IF fs = <<>> THEN <<>>
    ELSE IF Len(fs) = 1 THEN <<fs[1]>>
    ELSE <<fs[1], NLTok>> \o Join(Tail(fs))

\* default_strategy, one item of reader.lines().enumerate()...join("\n"):
\* a line that cannot be read is dropped by line.ok() and the iteration goes
\* on; enumerate has counted it.
SyncReadStep(s) ==
    LET r == ReadLine(s.stream, s.pos)
        m == Find(s.pat, r.line)
        fl == format_line(r.line, s.lineno + 1, m.start, m.end)
    IN  IF r.eof THEN [s EXCEPT !.pc = "emit"]
        ELSE IF ~r.ok
        THEN [s EXCEPT !.pos = r.newpos, !.lineno = @ + 1, !.rdErr = TRUE]
        ELSE [s EXCEPT !.pos = r.newpos, !.lineno = @ + 1,
                       !.matches = IF ~m.some THEN @
                                   ELSE IF @ = <<>> THEN <<fl>>
                                   ELSE @ \o <<NLTok, fl>>]

AsyncReadStep_zerobased(s) ==
    LET r == ReadLine(s.stream, s.pos)
        m == Find(s.pat, r.line)
        fl == format_line(r.line, s.lineno, m.start, m.end)
    IN  IF r.eof THEN [s EXCEPT !.matches = Join(s.finds), !.pc = "emit"]
        ELSE IF ~r.ok
        THEN [s EXCEPT !.pos = r.newpos, !.rdErr = TRUE, !.pc = "done", !.res = "err"]
        ELSE [s EXCEPT !.pos = r.newpos, !.lineno = @ + 1,
                       !.finds = IF m.some THEN Append(@, fl) ELSE @]

\* default_async_strategy, one turn of while let Some(line) =
\* lines.next_line().await?, and the join after the loop.
AsyncReadStep(s) ==
    LET r == ReadLine(s.stream, s.pos)
        m == Find(s.pat, r.line)
        fl == format_line(r.line, s.lineno + 1, m.start, m.end)
    IN  IF r.eof THEN [s EXCEPT !.matches = Join(s.finds), !.pc = "emit"]
        ELSE IF ~r.ok
        THEN [s EXCEPT !.pos = r.newpos, !.rdErr = TRUE, !.pc = "done", !.res = "err"]
        ELSE [s EXCEPT !.pos = r.newpos, !.lineno = @ + 1,
                       !.finds = IF m.some THEN Append(@, fl) ELSE @]

ReadStep(s) == IF s.variant = "sync" THEN SyncReadStep(s) ELSE AsyncReadStep(s)

WritePcs == {"emit", "w2", "w3", "w4"}

\* The bytes of the write_all call at pc.
Piece(s) ==
    CASE s.pc = "emit" -> <<PathTok(s.path)>>
      [] s.pc = "w2" -> <<NLTok>>
      [] s.pc = "w3" -> s.matches
      [] s.pc = "w4" -> <<NLTok>>

NextPc(pc) ==
    CASE pc = "emit" -> "w2"
      [] pc = "w2" -> "w3"
      [] pc = "w3" -> "w4"
      [] pc = "w4" -> "done"

\* Does the step at pc write?  At "emit" only when matches is not empty.
Writes(s) == s.pc \in WritePcs /\ ~(s.pc = "emit" /\ s.matches = <<>>)

WriteStep_always(s, ok) ==
    IF ~ok
    THEN [s EXCEPT !.wrErr = TRUE, !.pc = "done", !.res = "err"]
    ELSE [s EXCEPT !.out = @ \o Piece(s),
                   !.pc = NextPc(s.pc),
                   !.res = IF s.pc = "w4" THEN "ok" ELSE @]

\* if !matches.is_empty() { four write_all calls, each with ? } Ok(())
\* One step is the test and the first write_all, or one later write_all;
\* ok tells whether the writer accepts the bytes.  A write_all that fails
\* is taken to deliver none of its bytes.
WriteStep(s, ok) ==
    IF s.pc = "emit" /\ s.matches = <<>>
    THEN [s EXCEPT !.pc = "done", !.res = "ok"]
    ELSE IF ~ok
    THEN [s EXCEPT !.wrErr = TRUE, !.pc = "done", !.res = "err"]
    ELSE [s EXCEPT !.out = @ \o Piece(s),
                   !.pc = NextPc(s.pc),
                   !.res = IF s.pc = "w4" THEN "ok" ELSE @]

(***************************************************************************)
(* Specification Spec: one call of either strategy, on any stream of at    *)
(* most MaxLen tokens, with a writer that may refuse any write.            *)
(***************************************************************************)
NoCall == [pc |-> "none"]
NoCalls == <<>>
ThePath == 1

\* GrepConfig { pattern, glob }: what matters of the two strings before any
\* file is looked at is whether Regex::new and glob::glob accept them.
Configs == [pattern : BOOLEAN, glob : BOOLEAN]
ValidConfig == [pattern |-> TRUE, glob |-> TRUE]

Idle ==
    /\ cands = <<>> /\ task = <<>> /\ lastWriter = 0 /\ parRes = "off"
    /\ aNext = 0 /\ aQueue = {} /\ aStarted = {} /\ aCur = NoCalls
    /\ aCalls = <<>> /\ aRes = "off"
    /\ config = ValidConfig

Init ==
    /\ \E v \in Variants, st \in Streams, p \in Patterns :
          call = StratInit(v, ThePath, st, p)
    /\ Idle

OrchUnchanged ==
    UNCHANGED <<cands, task, lastWriter, parRes, aNext, aQueue, aStarted, aCur, aCalls, aRes, config>>

CallRead ==
    /\ call.pc = "read"
    /\ call' = ReadStep(call)
    /\ OrchUnchanged

CallWrite ==
    /\ call.pc \in WritePcs
    /\ \E ok \in BOOLEAN : call' = WriteStep(call, ok)
    /\ OrchUnchanged

Next == CallRead \/ CallWrite

Spec == Init /\ [][Next]_vars

(***************************************************************************)
(* Specification SpecFormat: one call of format_line, on any line of at    *)
(* most MaxLen characters and any match range of it.  A match range is the *)
(* byte range of a match in the line: its two ends are offsets between     *)
(* characters (&line[..start] panics on any other offset).                 *)
(***************************************************************************)
Lines == UNION {[1..n -> Chars] : n \in 0..MaxLen}
LineNos == {1, 1000}
Boundaries(line) == {ByteLen(SubSeq(line, 1, i)) : i \in 0..Len(line)}

FormatInit ==
    /\ \E line \in Lines, lineno \in LineNos :
          \E start \in Boundaries(line), end \in Boundaries(line) :
             /\ start <= end
             /\ call = [pc |-> "format", line |-> line, lineno |-> lineno,
                        start |-> start, end |-> end]
    /\ Idle

FormatLine ==
    /\ call.pc = "format"
    /\ call' = [pc |-> "formatted", line |-> call.line, lineno |-> call.lineno,
                start |-> call.start, end |-> call.end,
                result |-> format_line(call.line, call.lineno, call.start, call.end)]
    /\ OrchUnchanged

SpecFormat == FormatInit /\ [][FormatLine]_vars

(***************************************************************************)
(* The candidates of a run.  A candidate is what one entry of the glob's   *)
(* result and the file system make of it:                                  *)
(*   "globerr"    the glob gave Err for it;                                *)
(*   "notfile"    a path that is not a regular file (is_file() is false):  *)
(*                a directory, which File::open nevertheless opens and on  *)
(*                which every read fails (EISDIR);                         *)
(*   "noopen"     a regular file that File::open fails to open;            *)
(*   "match", "nomatch", "unreadable"   a file that opens, holding a line  *)
(*                that matches, no such line, or a line that matches       *)
(*                followed by a line that is not valid UTF-8.              *)
(***************************************************************************)
Kinds == {"globerr", "notfile", "noopen", "match", "nomatch", "unreadable"}
ThePattern == <<"w">>

StreamOf(kind) ==
    CASE kind = "match" -> <<"e", "w">>
      [] kind = "nomatch" -> <<"e">>
      [] kind = "unreadable" -> <<"w", NL, BAD>>
      [] OTHER -> <<>>

GlobOk(kind) == kind # "globerr"
IsFile(kind) == kind \notin {"globerr", "notfile"}
OpenOk(kind) == kind \notin {"globerr", "noopen"}

\* reader.lines() on an opened directory: every read_line gives Err, so the
\* iterator yields Some(Err(..)) at every step and never None.
ReadsNeverEnd(kind) == OpenOk(kind) /\ ~IsFile(kind)

\* A call that has ended leaves nothing behind: its state is dropped.
Settle(s) == IF s.pc = "done" THEN NoCall ELSE s

\* The read loop of a call, run to its end.
RECURSIVE RunReads(_)
RunReads(s) == IF s.pc = "read" THEN RunReads(ReadStep(s)) ELSE s

(***************************************************************************)
(* Parallel mode: GrepConfig::grep_with.  The candidates are spread over   *)
(* the rayon pool of NumWorkers threads; a worker that is free takes any   *)
(* candidate not yet taken.  task[c].runs counts the strategy calls on c.  *)
(* task[c].st: "pending", "skipped" (glob error or open failure),          *)
(* "spinning" (inside the strategy, in a line iteration that never ends),  *)
(* "running" (inside the strategy, at a write), "report" (the strategy     *)
(* returned Err, println! is next), "done", "panicked".  Every write_all   *)
(* locks the process output for that one call only; lastWriter is the     *)
(* candidate whose write_all was the latest to reach the output.           *)
(***************************************************************************)
ParCands == 1..NumCands

\* The jobs a worker is executing.
Active == {c \in ParCands : task[c].st \in {"running", "report", "spinning"}}
SomePanicked == \E c \in ParCands : task[c].st = "panicked"

\* default_strategy after its read loop, on a candidate of each kind.
SyncReads ==
    [k \in Kinds |-> RunReads(StratInit("sync", 0, StreamOf(k), ThePattern))]

\* The closure of for_each up to the call of the strategy and the read of
\* all lines: if let Ok(filename), if let Ok(file), BufReader, strategy.
TakeStep(c) ==
    IF GlobOk(cands[c]) /\ ReadsNeverEnd(cands[c])
    THEN [st |-> "spinning", runs |-> task[c].runs + 1, s |-> [pc |-> "read", lineno |-> 0]]
    ELSE IF GlobOk(cands[c]) /\ OpenOk(cands[c])
    THEN [st |-> "running", runs |-> task[c].runs + 1,
          s |-> [SyncReads[cands[c]] EXCEPT !.path = c]]
    ELSE [st |-> "skipped", runs |-> task[c].runs, s |-> NoCall]

\* What the end of a strategy call makes of the job: Err leads to println!.
AfterCall(s) ==
    IF s.pc # "done" THEN "running"
    ELSE IF s.res = "err" THEN "report" ELSE "done"

ParInit ==
    /\ call = NoCall
    /\ cands \in [ParCands -> Kinds]
    /\ task = [c \in ParCands |-> [st |-> "pending", runs |-> 0, s |-> NoCall]]
    /\ lastWriter = 0
    /\ parRes = "start"
    /\ aNext = 0 /\ aQueue = {} /\ aStarted = {} /\ aCur = NoCalls
    /\ aCalls = <<>> /\ aRes = "off"
    /\ config \in Configs

ParUnchanged == UNCHANGED <<call, cands, aNext, aQueue, aStarted, aCur, aCalls, aRes, config>>

\* let regex = Regex::new(&self.pattern)?; let files = glob::glob(&self.glob)?
\* .collect(): either error is returned to the caller before for_each.
ParStart ==
    /\ parRes = "start"
    /\ parRes' = IF config.pattern /\ config.glob THEN "running" ELSE "err"
    /\ UNCHANGED <<task, lastWriter>>
    /\ ParUnchanged

ParTake ==
    /\ parRes = "running"
    /\ Cardinality(Active) < NumWorkers
    /\ \E c \in ParCands :
          /\ task[c].st = "pending"
          /\ LET t == TakeStep(c)
             IN  task' = [task EXCEPT ![c] =
                            IF t.st = "running"
                            THEN [t EXCEPT !.st = AfterCall(t.s), !.s = Settle(t.s)]
                            ELSE t]
    /\ UNCHANGED <<lastWriter, parRes>>
    /\ ParUnchanged

ParWrite ==
    /\ \E c \in ParCands, ok \in BOOLEAN :
          /\ task[c].st = "running"
          /\ task[c].s.pc \in WritePcs
          /\ LET s2 == WriteStep(task[c].s, ok)
             IN  /\ task' = [task EXCEPT ![c].s = Settle(s2), ![c].st = AfterCall(s2)]
                 /\ lastWriter' = IF Writes(task[c].s) /\ ok THEN c ELSE lastWriter
    /\ UNCHANGED parRes
    /\ ParUnchanged

\* One more item of reader.lines().enumerate() on a reader whose reads all
\* fail: line.ok() drops the error, the count goes up (kept here modulo
\* LinenoWindow), and the iteration goes on.
ParSpin ==
    /\ \E c \in ParCands :
          /\ task[c].st = "spinning"
          /\ task' = [task EXCEPT ![c].s.lineno = (@ + 1) % LinenoWindow]
    /\ UNCHANGED <<lastWriter, parRes>>
    /\ ParUnchanged

\* println!("Internal error: {:?}", e): it writes to the same process
\* output and panics when that write fails.
ParReport ==
    /\ \E c \in ParCands, ok \in BOOLEAN :
          /\ task[c].st = "report"
          /\ task' = [task EXCEPT ![c].st = IF ok THEN "done" ELSE "panicked"]
    /\ UNCHANGED <<lastWriter, parRes>>
    /\ ParUnchanged

\* for_each joins its jobs: it ends when no job is running, and a panic of
\* a job is resumed in the caller; after a panic the jobs not yet started
\* may or may not be run.
ParJoined ==
    /\ Active = {}
    /\ SomePanicked \/ \A c \in ParCands : task[c].st # "pending"

ParReturn ==
    /\ parRes = "running"
    /\ ParJoined
    /\ parRes' = IF SomePanicked THEN "panic" ELSE "ok"
    /\ UNCHANGED <<task, lastWriter>>
    /\ ParUnchanged

ParNext == ParStart \/ ParTake \/ ParSpin \/ ParWrite \/ ParReport \/ ParReturn

SpecPar == ParInit /\ [][ParNext]_vars

\* The rayon pool keeps running: a worker that can take a step does, and a
\* join that can return does.
ParFairness ==
    /\ WF_vars(ParStart) /\ WF_vars(ParTake) /\ WF_vars(ParSpin)
    /\ WF_vars(ParWrite) /\ WF_vars(ParReport) /\ WF_vars(ParReturn)

SpecParFair == ParInit /\ [][ParNext]_vars /\ ParFairness

(***************************************************************************)
(* Asynchronous mode: GrepConfig::async_grep_with.  One task runs the      *)
(* while-let loop.  stream.next() first fills the buffer: it pulls         *)
(* candidates through the filter until the buffer holds Ceiling futures or *)
(* the iterator is exhausted; then it polls the futures it holds.  The     *)
(* first poll of a future starts its File::open (futures are first polled  *)
(* in the order they were pushed); a future whose open has ended is taken  *)
(* out of the buffer, in any order, and the loop body runs the strategy on *)
(* it to its end before stream.next() is called again.                     *)
(***************************************************************************)
AsyncCands == 1..NumFiles

Polling_eager == aRes = "running"

\* The loop is at stream.next().await: the body of the while-let loop, which
\* awaits the strategy call to its end, is not running.
Polling == aRes = "running" /\ aCur = NoCalls

\* aCur without the call on c, and with the call on c in state s (a call
\* that has ended is no longer in progress).
Without(c) == [d \in DOMAIN aCur \ {c} |-> aCur[d]]
WithCall(c, s) ==
    IF s.pc = "done" THEN Without(c)
    ELSE [d \in DOMAIN aCur \cup {c} |-> IF d = c THEN s ELSE aCur[d]]

QueueFull_offbyone == Cardinality(aQueue) > Ceiling

\* buffer_unordered(8): the buffer takes no further future.
QueueFull == Cardinality(aQueue) >= Ceiling

CanPull == ~QueueFull /\ aNext < NumFiles

Admitted_anypath(c) == GlobOk(cands[c])

\* .filter(|x| if let Ok(path) = x { path.is_file() } else { false })
Admitted(c) == GlobOk(cands[c]) /\ IsFile(cands[c])

Drained_early == aNext = NumFiles

\* stream.next() gives None: nothing left to pull and nothing in the buffer.
Drained == aNext = NumFiles /\ aQueue = {}

\* The candidates of the strategy calls in progress.
Current == DOMAIN aCur

\* Files whose open has been started and whose strategy call has not ended.
InFlight == (aQueue \cap aStarted) \cup Current

AsyncInit ==
    /\ call = NoCall
    /\ \E c0 \in {2, NumFiles}, k \in Kinds :
          cands = [c \in AsyncCands |-> IF c = c0 THEN k ELSE "match"]
    /\ task = <<>> /\ lastWriter = 0 /\ parRes = "off"
    /\ aNext = 0 /\ aQueue = {} /\ aStarted = {} /\ aCur = NoCalls
    /\ aCalls = [c \in AsyncCands |-> 0]
    /\ aRes = "start"
    /\ config \in Configs

AsyncUnchanged == UNCHANGED <<call, cands, task, parRes, config>>

\* let files = glob::glob(&self.glob)?.collect(): a glob error is returned;
\* then let regex = Regex::new(&self.pattern).unwrap(): a pattern error is
\* not returned, the unwrap panics.
AStart ==
    /\ aRes = "start"
    /\ aRes' = IF ~config.glob THEN "err"
               ELSE IF ~config.pattern THEN "panic"
               ELSE "running"
    /\ UNCHANGED <<aNext, aQueue, aStarted, aCur, aCalls, lastWriter>>
    /\ AsyncUnchanged

\* One candidate pulled from the filtered iterator into the buffer.
AFill ==
    /\ Polling
    /\ CanPull
    /\ aNext' = aNext + 1
    /\ aQueue' = IF Admitted(aNext + 1) THEN aQueue \cup {aNext + 1} ELSE aQueue
    /\ UNCHANGED <<aStarted, aCur, aCalls, aRes, lastWriter>>
    /\ AsyncUnchanged

\* The first poll of a future: fs::File::open(&path) is started.
AStartOpen ==
    /\ Polling
    /\ ~CanPull
    /\ aQueue \ aStarted # {}
    /\ aStarted' = aStarted \cup {Min(aQueue \ aStarted)}
    /\ UNCHANGED <<aNext, aQueue, aCur, aCalls, aRes, lastWriter>>
    /\ AsyncUnchanged

\* A future whose open has ended is polled: .unwrap() panics when the open
\* failed; otherwise the pair leaves the buffer and the loop body calls the
\* strategy, which reads all lines.
AOpenDone ==
    /\ Polling
    /\ ~CanPull
    /\ \E c \in aQueue \cap aStarted :
          IF OpenOk(cands[c])
          THEN /\ aQueue' = aQueue \ {c}
               /\ aCalls' = [aCalls EXCEPT ![c] = @ + 1]
               /\ aCur' = WithCall(c, RunReads(StratInit("async", c, StreamOf(cands[c]), ThePattern)))
               /\ UNCHANGED aRes
          ELSE /\ aRes' = "panic"
               /\ UNCHANGED <<aQueue, aCalls, aCur>>
    /\ UNCHANGED <<aNext, aStarted, lastWriter>>
    /\ AsyncUnchanged

\* One write step of a strategy call in progress.
AWrite ==
    /\ aRes = "running"
    /\ \E c \in Current, ok \in BOOLEAN :
          /\ aCur' = WithCall(c, WriteStep(aCur[c], ok))
          /\ lastWriter' = IF Writes(aCur[c]) /\ ok THEN c ELSE lastWriter
    /\ UNCHANGED <<aNext, aQueue, aStarted, aCalls, aRes>>
    /\ AsyncUnchanged

\* The stream is drained: the loop ends and Ok(()) is returned.
AReturn ==
    /\ Polling
    /\ Drained
    /\ aRes' = "ok"
    /\ UNCHANGED <<aNext, aQueue, aStarted, aCur, aCalls, lastWriter>>
    /\ AsyncUnchanged

AsyncNext == AStart \/ AFill \/ AStartOpen \/ AOpenDone \/ AWrite \/ AReturn

SpecAsync == AsyncInit /\ [][AsyncNext]_vars

(***************************************************************************)
(* Reference notions the claims are stated with.  They are computed from   *)
(* the whole input stream, not from the state of a call.                   *)
(***************************************************************************)
RECURSIVE SplitAcc(_, _, _)
SplitAcc(rest, cur, open) ==
    IF rest = <<>> THEN (IF open THEN <<cur>> ELSE <<>>)
    ELSE IF Head(rest) = NL THEN <<cur>> \o SplitAcc(Tail(rest), <<>>, FALSE)
    ELSE SplitAcc(Tail(rest), Append(cur, Head(rest)), TRUE)

\* The physical lines of a stream: a final line needs no newline.
AllLines(stream) == SplitAcc(stream, <<>>, FALSE)

Readable(line) == \A i \in 1..Len(line) : line[i] # BAD
StreamReadable(stream) == \A i \in 1..Len(stream) : stream[i] # BAD

\* The line can be read and the pattern occurs in it.
Matching(pat, line) ==
    /\ Readable(line)
    /\ \E i \in 1..Len(line) :
          i + Len(pat) - 1 <= Len(line) /\ SubSeq(line, i, i + Len(pat) - 1) = pat

\* The byte offset at which the first occurrence of pat in line starts.
FirstStart(pat, line) ==
    LET i == CHOOSE x \in 1..Len(line) :
                 /\ x + Len(pat) - 1 <= Len(line)
                 /\ SubSeq(line, x, x + Len(pat) - 1) = pat
                 /\ \A y \in 1..(x - 1) : SubSeq(line, y, y + Len(pat) - 1) # pat
    IN  ByteLen(SubSeq(line, 1, i - 1))

\* One <newline, formatted line> pair per matching line from line i on.
RECURSIVE RefTail(_, _, _)
RefTail(lines, pat, i) ==
    IF i > Len(lines) THEN <<>>
    ELSE (IF Matching(pat, lines[i])
          THEN <<NLTok, format_line(lines[i], i, FirstStart(pat, lines[i]),
                                    FirstStart(pat, lines[i]) + ByteLen(pat))>>
          ELSE <<>>) \o RefTail(lines, pat, i + 1)

\* The block of a file: path, then newline and formatted line per matching
\* line, then the trailing newline.
RefBlock(path, stream, pat) ==
    <<PathTok(path)>> \o RefTail(AllLines(stream), pat, 1) \o <<NLTok>>

SomeLineMatches(stream, pat) ==
    \E j \in 1..Len(AllLines(stream)) : Matching(pat, AllLines(stream)[j])

IsLineTok(t) == t.k = "line"
IsPathTok(t) == t.k = "path"
LineToks(out) == SelectSeq(out, IsLineTok)
HeaderWritten(out) == \E i \in 1..Len(out) : IsPathTok(out[i])

\* The formatted lines a call has collected so far.
Emitted(s) == IF s.variant = "sync" THEN LineToks(s.matches) ELSE s.finds

\* The number of physical lines the reader of a call has consumed.
Consumed(s) == Len(AllLines(SubSeq(s.stream, 1, s.pos - 1)))

(***************************************************************************)
(* C1 (as claimed): in parallel mode the writes of one file's block reach  *)
(* the shared output with no write of another file's block in between:     *)
(* whenever a job performs the second, third or fourth write_all of its    *)
(* block, the latest write on the output before it is that job's own.      *)
(***************************************************************************)
ContinuesBlock(c) ==
    /\ task[c].st = "running"
    /\ task[c].s.pc \in {"w2", "w3", "w4"}
    /\ task'[c] # task[c]
    /\ task'[c].st \in {"running", "done"}

C1_BlocksContiguous ==
    [][\A c \in DOMAIN task : ContinuesBlock(c) => lastWriter = c]_vars

(***************************************************************************)
(* C5 (as claimed): in parallel mode a failure on one candidate (glob      *)
(* error, open failure, error returned by the strategy) does not keep the  *)
(* strategy from running on the others, and grep_with returns Ok(()):      *)
(* the run never ends in a panic, and when it has returned the strategy    *)
(* was called on every candidate that resolves and opens.                  *)
(***************************************************************************)
C5_FailuresContained ==
    /\ parRes # "panic"
    /\ parRes = "ok" =>
          \A c \in ParCands : (GlobOk(cands[c]) /\ OpenOk(cands[c])) => task[c].runs = 1

(***************************************************************************)
(* C2: in asynchronous mode, at every instant, at most Ceiling (8) files   *)
(* are in flight (open started, strategy call not ended), whatever the     *)
(* number of candidates; the buffer and the call in progress together      *)
(* never hold more than Ceiling files either.                              *)
(***************************************************************************)
C2_AtMostCeilingInFlight ==
    (aRes # "off")
        => /\ Cardinality(InFlight) <= Ceiling
           /\ Cardinality(aQueue \cup Current) <= Ceiling

\* Ceiling files are in flight (one of them inside the strategy) while
\* another file has already been processed: more than Ceiling were admitted.
C2_Witness ==
    /\ aRes = "running"
    /\ Current # {}
    /\ Cardinality(InFlight) = Ceiling
    /\ \E c \in AsyncCands : aCalls[c] = 1 /\ c \notin Current

(***************************************************************************)
(* C3: in asynchronous mode no file is ever handed to the strategy twice,  *)
(* and when async_grep_with has returned, every candidate that passed the  *)
(* filter was handed to the strategy exactly once (and no other candidate  *)
(* was), in whatever order the opens completed.                            *)
(***************************************************************************)
C3_ExactlyOnce ==
    (aRes # "off")
        => /\ \A c \in AsyncCands : aCalls[c] <= 1
           /\ aRes = "ok" =>
                 \A c \in AsyncCands : aCalls[c] = IF Admitted(c) THEN 1 ELSE 0

\* A run over more regular files than the ceiling has returned, and the
\* last file pulled was not the last one processed.
C3_Witness ==
    /\ aRes = "ok"
    /\ Cardinality({c \in AsyncCands : aCalls[c] = 1}) > Ceiling
    /\ lastWriter \notin {0, NumFiles}

(***************************************************************************)
(* C4 (as claimed): in asynchronous mode a per-file I/O failure (open,     *)
(* read or write) is contained to that file: a run with a valid pattern    *)
(* and glob never ends in a panic, and when it has returned every other    *)
(* admitted file that opens was processed.                                 *)
(***************************************************************************)
C4_IoFailureContained ==
    /\ config = ValidConfig => aRes # "panic"
    /\ aRes = "ok" =>
          \A c \in AsyncCands : (Admitted(c) /\ OpenOk(cands[c])) => aCalls[c] = 1


(***************************************************************************)
(* C6 (as claimed): in default_strategy a failed line read aborts the      *)
(* call, which returns an error: a call of the synchronous strategy in     *)
(* which a read failed has read no further line since, and when it has     *)
(* ended its result is an error, not Ok.                                   *)
(***************************************************************************)
C6_ReadFailureAborts ==
    (call.pc = "done" /\ call.variant = "sync" /\ call.rdErr)
        => /\ call.res = "err"
           /\ ~Readable(AllLines(call.stream)[Consumed(call)])

(***************************************************************************)
(* C7 (as claimed): when a strategy call has ended, its writer has         *)
(* received either the complete block of the file or nothing at all.       *)
(***************************************************************************)
C7_BlockOrNothing ==
    (call.pc = "done")
        => \/ call.out = <<>>
           \/ call.out = RefBlock(call.path, call.stream, call.pat)

(***************************************************************************)
(* C8 (as claimed): when a strategy call has ended, the path header has    *)
(* been written if and only if at least one line of the file matches, and  *)
(* with no matching line nothing has been written.  Stated here for a      *)
(* writer that accepted every write, so that only the input decides.       *)
(***************************************************************************)
C8_HeaderIffMatch ==
    (call.pc = "done" /\ ~call.wrErr)
        => /\ HeaderWritten(call.out) <=> SomeLineMatches(call.stream, call.pat)
           /\ ~SomeLineMatches(call.stream, call.pat) => call.out = <<>>

(***************************************************************************)
(* C8 (amended): at every point of a call of either strategy, the header   *)
(* has been written only if some line matches, and with no matching line   *)
(* nothing has been written; when the call returns Ok, the header has been *)
(* written if and only if some line matches.                               *)
(***************************************************************************)
C8_HeaderIffMatchWhenOk ==
    (call.pc # "none")
        => /\ HeaderWritten(call.out) => SomeLineMatches(call.stream, call.pat)
           /\ ~SomeLineMatches(call.stream, call.pat) => call.out = <<>>
           /\ (call.pc = "done" /\ call.res = "ok")
                 => (HeaderWritten(call.out) <=> SomeLineMatches(call.stream, call.pat))

\* A call returned Ok and wrote the header for a stream in which one line
\* matches and another line does not.
C8_Witness ==
    /\ call.pc = "done" /\ call.res = "ok"
    /\ HeaderWritten(call.out)
    /\ \E j \in 1..Len(AllLines(call.stream)) :
          ~Matching(call.pat, AllLines(call.stream)[j])

(***************************************************************************)
(* C9: for a readable input with at least one matching line, the output of *)
(* a completed strategy call (its writer accepted every write) is the      *)
(* reference block: the path, a newline, one formatted line per matching   *)
(* line with the range of its first match, in input order, joined by       *)
(* newlines, and a trailing newline.                                       *)
(***************************************************************************)
C9_OutputIsReference ==
    (/\ call.pc = "done" /\ ~call.wrErr
     /\ StreamReadable(call.stream)
     /\ SomeLineMatches(call.stream, call.pat))
        => call.out = RefBlock(call.path, call.stream, call.pat)

\* A completed call on "ww\nw": the first line has two matches, the last
\* line has no newline, and two formatted lines are in the output.
C9_Witness ==
    /\ call.pc = "done" /\ call.res = "ok"
    /\ call.stream = <<"w", "w", NL, "w">>
    /\ Len(LineToks(call.out)) = 2

(***************************************************************************)
(* C10: at every point of a call of either strategy on a stream of N       *)
(* lines, the line numbers of the formatted lines collected so far are in  *)
(* 1..N, each is the physical position of the line it formats, they are    *)
(* strictly increasing, and they are exactly the positions of the matching *)
(* lines among the lines consumed; the formatted lines in the output are   *)
(* those collected.                                                        *)
(***************************************************************************)
C10_LineNumbers ==
    (call.pc # "none") =>
        LET em == Emitted(call)
            lines == AllLines(call.stream)
        IN  /\ \A i \in 1..Len(em) :
                  /\ em[i].lineno \in 1..Len(lines)
                  /\ lines[em[i].lineno] = em[i].prefix \o em[i].matched \o em[i].suffix
            /\ \A i \in 1..(Len(em) - 1) : em[i].lineno < em[i + 1].lineno
            /\ {em[i].lineno : i \in 1..Len(em)}
                  = {j \in 1..Consumed(call) : Matching(call.pat, lines[j])}
            /\ LineToks(call.out) \in {<<>>, em}

\* A call that wrote lines 1 and 3 of a stream whose line 2 is blank.
C10_Witness ==
    /\ call.pc = "done"
    /\ Len(LineToks(call.out)) = 2
    /\ LineToks(call.out)[1].lineno = 1
    /\ LineToks(call.out)[2].lineno = 3
    /\ AllLines(call.stream)[2] = <<>>

(***************************************************************************)
(* C11 (as claimed): with an invalid pattern or an invalid glob, both      *)
(* entry points end by returning a configuration error to the caller       *)
(* before any file is looked at: the run never panics, it ends only with   *)
(* the result Err, no open is started and the strategy is never invoked.   *)
(* Stated for async_grep_with.                                             *)
(***************************************************************************)
C11_ConfigErrorReturned ==
    (aRes # "off" /\ config # ValidConfig)
        => /\ aRes \in {"start", "err"}
           /\ aStarted = {} /\ aNext = 0
           /\ \A c \in AsyncCands : aCalls[c] = 0

(***************************************************************************)
(* C12 (as claimed): the two strategies have the same external contract:   *)
(* on the same path, input stream and pattern, with a writer that accepts  *)
(* every write, default_strategy and default_async_strategy write the same *)
(* output and return the same kind of result (Ok or error).  A call that   *)
(* has ended is compared with the other strategy run to its end on the     *)
(* same inputs.                                                            *)
(***************************************************************************)
RECURSIVE RunToEnd(_)
RunToEnd(s) ==
    IF s.pc = "done" THEN s
    ELSE IF s.pc = "read" THEN RunToEnd(ReadStep(s))
    ELSE RunToEnd(WriteStep(s, TRUE))

OtherVariant(v) == IF v = "sync" THEN "async" ELSE "sync"

C12_SameContract ==
    (call.pc = "done" /\ ~call.wrErr)
        => LET o == RunToEnd(StratInit(OtherVariant(call.variant), call.path,
                                       call.stream, call.pat))
           IN  /\ o.out = call.out
               /\ o.res = call.res

(***************************************************************************)
(* C13 (as claimed): parallel mode terminates as a fan-out/fan-in join:    *)
(* whatever the candidates are, grep_with eventually ends, and when it has *)
(* ended no worker is still executing a job.                               *)
(***************************************************************************)
C13_JoinTerminates ==
    /\ [](parRes \in {"ok", "err", "panic"} => Active = {})
    /\ <>(parRes \in {"ok", "err", "panic"})

(***************************************************************************)
(* C14: format_line reports as column the number of characters (not of     *)
(* bytes) of the part of the line before the match start, plus one, also   *)
(* when characters of more than one byte precede the match; the result     *)
(* carries the line number it was given, and its prefix, matched text and  *)
(* suffix are, in that order, the line itself, cut at the two byte offsets *)
(* of the match range.                                                     *)
(***************************************************************************)
C14_ColumnInCharacters ==
    (call.pc = "formatted")
        => LET r == call.result
           IN  /\ r.col = Len(r.prefix) + 1
               /\ r.prefix \o r.matched \o r.suffix = call.line
               /\ ByteLen(r.prefix) = call.start
               /\ ByteLen(r.matched) = call.end - call.start
               /\ r.lineno = call.lineno

\* A formatted line whose match is preceded by a two-byte character and
\* followed by text: the column is not the byte offset plus one.
C14_Witness ==
    /\ call.pc = "formatted"
    /\ \E i \in 1..Len(call.result.prefix) : call.result.prefix[i] = "e"
    /\ call.result.col # call.start + 1
    /\ call.result.matched # <<>>
    /\ call.result.suffix # <<>>

(***************************************************************************)
(* C15: in asynchronous mode at most one strategy call is in progress at   *)
(* any instant, although up to Ceiling opens are in flight, and so one     *)
(* file's block is contiguous on the shared output: whenever a call        *)
(* performs the second, third or fourth write of its block, the latest     *)
(* write on the output before it is that call's own.                       *)
(***************************************************************************)
AContinuesBlock(c) ==
    /\ c \in Current
    /\ aCur[c].pc \in {"w2", "w3", "w4"}
    /\ (c \in DOMAIN aCur') => aCur'[c] # aCur[c]

C15_OneCallAtATime ==
    /\ [](Cardinality(Current) <= 1)
    /\ [][\A c \in AsyncCands : AContinuesBlock(c) => lastWriter = c]_vars

\* A call is writing the last part of its block while another file's block
\* is already on the output and further opens are under way.
C15_Witness ==
    /\ \E c \in Current : aCur[c].pc = "w4" /\ lastWriter = c
    /\ \E d \in AsyncCands : d \notin Current /\ aCalls[d] = 1
    /\ Cardinality(aQueue \cap aStarted) >= 2

(***************************************************************************)
(* C16: in asynchronous mode the strategy is invoked only for candidates   *)
(* that resolved from the glob, were regular files when filtered and were  *)
(* opened successfully.  A candidate whose glob resolution failed or that  *)
(* is not a regular file is dropped: it never enters the buffer, its open  *)
(* is never started, the strategy is never invoked on it; and it does not  *)
(* affect the others: it is never the cause of a panic, and when the run   *)
(* has returned every other candidate was handed to the strategy once.     *)
(***************************************************************************)
Dropped(c) == ~GlobOk(cands[c]) \/ ~IsFile(cands[c])

C16_OnlyOpenedRegularFiles ==
    (aRes # "off")
        => /\ \A c \in AsyncCands :
                 aCalls[c] >= 1 => /\ GlobOk(cands[c]) /\ IsFile(cands[c])
                                   /\ OpenOk(cands[c])
                                   /\ c \in aStarted
           /\ \A c \in AsyncCands :
                 Dropped(c) => c \notin aQueue /\ c \notin aStarted /\ aCalls[c] = 0
           /\ (aRes = "panic" /\ config = ValidConfig)
                 => \E c \in aStarted : ~OpenOk(cands[c])
           /\ ((\E c \in AsyncCands : Dropped(c)) /\ aRes = "ok")
                 => \A c \in AsyncCands : aCalls[c] = IF Dropped(c) THEN 0 ELSE 1

\* A run whose candidates hold a directory has returned: the directory was
\* passed over and every file pulled after it was processed.
C16_Witness ==
    /\ aRes = "ok"
    /\ \E c \in AsyncCands :
          /\ cands[c] = "notfile"
          /\ aCalls[c] = 0
          /\ \E d \in AsyncCands : d > c /\ aCalls[d] = 1
          /\ \E d \in AsyncCands : d < c /\ aCalls[d] = 1

(***************************************************************************)
(* C17 (as claimed): in parallel mode, however the candidates are spread   *)
(* over the workers, no candidate is ever passed to the strategy twice,    *)
(* and when grep_with has ended every candidate that resolves and opens    *)
(* was passed to the strategy exactly once: none that opens is skipped.    *)
(***************************************************************************)
C17_EachOpenedOnce ==
    (parRes # "off")
        => /\ \A c \in ParCands : task[c].runs <= 1
           /\ parRes \in {"ok", "panic"} =>
                 \A c \in ParCands :
                    (GlobOk(cands[c]) /\ OpenOk(cands[c])) => task[c].runs = 1

====
